---- MODULE Spec2Model ----
(***************************************************************************)
(* A model of the video frame extractor: the orchestrator                  *)
(* (video_frame_extractor.py), the three extraction strategies             *)
(* (frame_extraction_strategy.py), the strategy lookup (utils.py) and the  *)
(* command-line front end (cli.py).                                        *)
(*                                                                         *)
(* Numbers.  Times (start_time, end_time, duration) are rationals with the *)
(* common denominator TimeDen: the model holds the numerator ("ticks").    *)
(* The average frame rate is a rational <<num, den>>, as ffprobe reports   *)
(* it ("avg_frame_rate": "num/den").  Products and comparisons are exact;  *)
(* the rounding of IEEE doubles is not modelled.                           *)
(*                                                                         *)
(* Optional values.  None is the empty sequence and a present value x is   *)
(* the one-element sequence <<x>>.                                         *)
(*                                                                         *)
(* Strings that the code lower-cases (strategy names, file suffixes) are   *)
(* sequences of one-character strings.                                     *)
(***************************************************************************)
EXTENDS Integers, Sequences, FiniteSets, TLC

VARIABLES
    pc,        \* where the run is: see the actions
    args,      \* cli.py: the parsed argparse namespace (CLI runs only)
    req,       \* the arguments given to VideoFrameExtractor.__init__
    self,      \* the extractor's fields once constructed
    env,       \* what the run has observed of the file system and of ffprobe
    metadata,  \* extract_frames' local: the result of get_metadata
    sel,       \* the strategy's locals: validated fps, times, frame range, samples
    ffmpeg,    \* the extraction commands run so far
    exc,       \* the exception that ended the run, or "none"
    trace,     \* the events of the run, in order
    cli,       \* cli.py: the loop over the entries of a directory
    lookup     \* a call of get_strategy_class: its argument and its result

vars == <<pc, args, req, self, env, metadata, sel, ffmpeg, exc, trace, cli, lookup>>

----------------------------------------------------------------------------
(* Bounds of the model *)

TimeDen == 2        \* ticks per second
MaxTime == 3        \* requested times range over -1 .. MaxTime ticks
MaxDuration == 2    \* the probed duration, in ticks
MaxFps == 3         \* requested fps range over 0 .. MaxFps
MaxRateNum == 5     \* numerators of the probed average frame rate
MaxNameLen == 3     \* length of the arbitrary strategy names tried
MaxEntries == 2     \* entries of a directory given to the CLI
MaxCalls == 4       \* calls of validate_output_path on one path

----------------------------------------------------------------------------
(* Optional values *)

None == <<>>
Some(x) == <<x>>
IsNone(o) == o = <<>>
Val(o) == o[1]

Min(a, b) == IF a <= b THEN a ELSE b

\* Python's int() of the rational n/d (d > 0): truncation toward zero.
IntTrunc(n, d) == IF n >= 0 THEN n \div d ELSE -((-n) \div d)

----------------------------------------------------------------------------
(* Strings: str.lower() *)

LowerLetters == <<"a", "d", "e", "f", "i", "l", "m", "n", "o", "p", "r", "t", "u", "v", "x">>
UpperLetters == <<"A", "D", "E", "F", "I", "L", "M", "N", "O", "P", "R", "T", "U", "V", "X">>

LowerChar(c) ==
    IF \E i \in 1..Len(UpperLetters) : UpperLetters[i] = c
    THEN LowerLetters[CHOOSE i \in 1..Len(UpperLetters) : UpperLetters[i] = c]
    ELSE c

UpperChar(c) ==
    IF \E i \in 1..Len(LowerLetters) : LowerLetters[i] = c
    THEN UpperLetters[CHOOSE i \in 1..Len(LowerLetters) : LowerLetters[i] = c]
    ELSE c

StrLower(s) == [i \in 1..Len(s) |-> LowerChar(s[i])]

----------------------------------------------------------------------------
(* utils.py *)

Dot == "."
VALID_VIDEO_EXTENSIONS ==
    { <<Dot, "m", "p", "4">>, <<Dot, "a", "v", "i">>, <<Dot, "m", "o", "v">>,
      <<Dot, "m", "k", "v">>, <<Dot, "w", "e", "b", "m">> }

\* FrameExtractionStrategy.__subclasses__(), in definition order.
Subclasses == <<"AllFramesStrategy", "UniformFramesStrategy", "FixedRandomFramesStrategy">>

STRATEGY_NAME(cls) ==
    CASE cls = "AllFramesStrategy" -> <<"a", "l", "l">>
      [] cls = "UniformFramesStrategy" -> <<"u", "n", "i", "f", "o", "r", "m">>
      [] cls = "FixedRandomFramesStrategy" ->
             <<"f", "i", "x", "e", "d", "_", "r", "a", "n", "d", "o", "m">>

\* The loop of get_strategy_class over the subclasses, from the i-th on:
\* the first class whose STRATEGY_NAME equals name, or ValueError.
RECURSIVE FindStrategy(_, _)
FindStrategy(name, i) ==
    IF i > Len(Subclasses)
    THEN [exc |-> "ValueError", cls |-> "None"]
    ELSE IF STRATEGY_NAME(Subclasses[i]) = name
         THEN [exc |-> "none", cls |-> Subclasses[i]]
         ELSE FindStrategy(name, i + 1)

\* Mutant: the lookup without name.lower().
get_strategy_class_case_sensitive(name) == FindStrategy(name, 1)

get_strategy_class(name) == FindStrategy(StrLower(name), 1)

\* Mutant: a missing directory is made whatever create_if_missing says.
validate_output_path_always_creates(pre, create_if_missing, mkdir_ok) ==
    IF pre # "absent"
    THEN IF pre # "dir"
         THEN [exc |-> "NotADirectoryError", post |-> pre]
         ELSE [exc |-> "none", post |-> pre]
    ELSE IF mkdir_ok
         THEN [exc |-> "none", post |-> "dir"]
         ELSE [exc |-> "OSError", post |-> pre]

\* validate_output_path: pre is the state of the path before the call
\* ("dir", "file" or "absent"), mkdir_ok whether mkdir would succeed.
\* Returns the exception raised and the state of the path afterwards.
validate_output_path(pre, create_if_missing, mkdir_ok) ==
    IF pre # "absent"
    THEN IF pre # "dir"
         THEN [exc |-> "NotADirectoryError", post |-> pre]
         ELSE [exc |-> "none", post |-> pre]
    ELSE IF create_if_missing
         THEN IF mkdir_ok
              THEN [exc |-> "none", post |-> "dir"]
              ELSE [exc |-> "OSError", post |-> pre]
         ELSE [exc |-> "FileNotFoundError", post |-> pre]

----------------------------------------------------------------------------
(* frame_extraction_strategy.py: the shared validation routines.           *)
(* md is the metadata, None or <<[duration, avg_fps]>>.                     *)

\* avg_fps <= 0 for the rational num/den, den > 0
RateNonPositive(rate) == rate[1] <= 0

_validate_avg_fps(md) ==
    IF IsNone(md)
    THEN [exc |-> "ValueError", avg_fps |-> <<0, 1>>]
    ELSE IF RateNonPositive(Val(md).avg_fps)
         THEN [exc |-> "ValueError", avg_fps |-> <<0, 1>>]
         ELSE [exc |-> "none", avg_fps |-> Val(md).avg_fps]

\* Mutant: the end time is not checked against the duration.
validate_time_range_no_end_bound(md, start_time, end_time) ==
    IF IsNone(md)
    THEN [exc |-> "ValueError", start |-> 0, end |-> 0]
    ELSE LET duration == Val(md).duration
             actual_start_time == IF IsNone(start_time) THEN 0 ELSE Val(start_time)
             actual_end_time == IF IsNone(end_time) THEN duration ELSE Val(end_time)
         IN  IF duration <= 0
             THEN [exc |-> "ValueError", start |-> 0, end |-> 0]
             ELSE IF actual_start_time < 0 \/ actual_start_time >= duration
                  THEN [exc |-> "ValueError", start |-> 0, end |-> 0]
                  ELSE IF actual_end_time <= actual_start_time
                       THEN [exc |-> "ValueError", start |-> 0, end |-> 0]
                       ELSE [exc |-> "none", start |-> actual_start_time,
                             end |-> actual_end_time]

\* Mutant: an end time equal to the start time passes (< for <=).
validate_time_range_allows_empty(md, start_time, end_time) ==
    IF IsNone(md)
    THEN [exc |-> "ValueError", start |-> 0, end |-> 0]
    ELSE LET duration == Val(md).duration
             actual_start_time == IF IsNone(start_time) THEN 0 ELSE Val(start_time)
             actual_end_time == IF IsNone(end_time) THEN duration ELSE Val(end_time)
         IN  IF duration <= 0
             THEN [exc |-> "ValueError", start |-> 0, end |-> 0]
             ELSE IF actual_start_time < 0 \/ actual_start_time >= duration
                  THEN [exc |-> "ValueError", start |-> 0, end |-> 0]
                  ELSE IF actual_end_time < actual_start_time \/ actual_end_time > duration
                       THEN [exc |-> "ValueError", start |-> 0, end |-> 0]
                       ELSE [exc |-> "none", start |-> actual_start_time,
                             end |-> actual_end_time]

_validate_time_range(md, start_time, end_time) ==
    IF IsNone(md)
    THEN [exc |-> "ValueError", start |-> 0, end |-> 0]
    ELSE LET duration == Val(md).duration
             actual_start_time == IF IsNone(start_time) THEN 0 ELSE Val(start_time)
             actual_end_time == IF IsNone(end_time) THEN duration ELSE Val(end_time)
         IN  IF duration <= 0
             THEN [exc |-> "ValueError", start |-> 0, end |-> 0]
             ELSE IF actual_start_time < 0 \/ actual_start_time >= duration
                  THEN [exc |-> "ValueError", start |-> 0, end |-> 0]
                  ELSE IF actual_end_time <= actual_start_time \/ actual_end_time > duration
                       THEN [exc |-> "ValueError", start |-> 0, end |-> 0]
                       ELSE [exc |-> "none", start |-> actual_start_time,
                             end |-> actual_end_time]

\* Mutant: any fps that is given passes.
validate_fps_accepts_nonpositive(fps) ==
    IF IsNone(fps)
    THEN [exc |-> "ValueError", fps |-> 0]
    ELSE [exc |-> "none", fps |-> Val(fps)]

_validate_fps(fps) ==
    IF IsNone(fps)
    THEN [exc |-> "ValueError", fps |-> 0]
    ELSE IF Val(fps) <= 0
         THEN [exc |-> "ValueError", fps |-> 0]
         ELSE [exc |-> "none", fps |-> Val(fps)]

\* fps > avg_fps, for the integer fps and the rational avg_fps
FpsExceeds(fps, rate) == fps * rate[2] > rate[1]

\* int(t * avg_fps) for the time t in ticks
FrameAt(t, rate) == IntTrunc(t * rate[1], TimeDen * rate[2])

----------------------------------------------------------------------------
(* The inputs of a run and the answers of its environment *)

OptTimes == {None} \cup {Some(t) : t \in -1..MaxTime}
OptFps == {None} \cup {Some(n) : n \in 0..MaxFps}
Suffixes == { <<Dot, "M", "p", "4">>, <<Dot, "t", "x", "t">> }

\* An output directory is named by its path below the directory the caller
\* chose: <<>> is that directory, <<stem>> its subdirectory of that name.
OutputRoot == <<>>

\* The arguments of VideoFrameExtractor.__init__.  The video path is its
\* stem and its suffix.
Requests ==
    [ video_stem : {"sample"}, video_suffix : Suffixes, allow_any_extension : BOOLEAN,
      output_dir : {None, Some(OutputRoot)},
      fps : OptFps, start_time : OptTimes, end_time : OptTimes,
      strategy : {"None", "AllFramesStrategy", "UniformFramesStrategy",
                  "FixedRandomFramesStrategy"},
      reset_indices : BOOLEAN ]

NoRequest ==
    [ video_stem |-> "", video_suffix |-> <<>>, allow_any_extension |-> FALSE,
      output_dir |-> None,
      fps |-> None, start_time |-> None, end_time |-> None, strategy |-> "None",
      reset_indices |-> FALSE ]

\* What ffprobe answers: the command fails, prints no JSON, reports no stream,
\* reports a field that int() or float() rejects, or reports a stream with
\* its duration (ticks) and avg_frame_rate "num/den".
Rates == { <<0, 1>>, <<1, 0>>, <<3, 2>>, <<MaxRateNum, 2>>, <<MaxRateNum, 1>> }
ProbeOutcomes ==
    { [status |-> st, duration |-> 0, rate |-> <<0, 1>>] :
          st \in {"command_failed", "bad_json", "no_streams", "bad_field"} }
    \cup { [status |-> "ok", duration |-> d, rate |-> r] : d \in 0..MaxDuration, r \in Rates }

NoEnv == [video |-> "file", output_pre |-> "unobserved", output |-> "unobserved",
          probe |-> None]

NoSel == [fps |-> 0, avg_fps |-> <<0, 1>>, start |-> 0, end |-> 0,
          start_frame |-> 0, end_frame |-> 0, num |-> 0,
          samples |-> <<>>, frames |-> None, filter |-> None]

Event(name, ok) == [ev |-> name, ok |-> ok]

\* The run ends with exception e raised out of the step that logs event ev.
Raise(e, ev) ==
    /\ pc' = "raised"
    /\ exc' = e
    /\ trace' = Append(trace, Event(ev, FALSE))

NoLookup == [name |-> <<>>, cls |-> "None", exc |-> "none"]

\* No directory is being walked.  listing: what iterdir() yields, in its
\* order; next: the entry the loop visits next; made: the subdirectories
\* the loop has made.
NoLoop == [listing |-> <<>>, next |-> 1, made |-> {}]

\* Where the call of the extractor's method returns to: the loop over a
\* directory, or the end of the run.
ReturnTo == IF IsNone(args) THEN "done"
            ELSE IF env.video = "dir" THEN "cli_dir" ELSE "done"

----------------------------------------------------------------------------
(* video_frame_extractor.py: VideoFrameExtractor *)

\* Mutant: __init__ rejects start_time = 0 (<= for <).
InitChecksStartPositive(r, exists, out) ==
    IF ~exists THEN "FileNotFoundError"
    ELSE IF ~r.allow_any_extension /\ StrLower(r.video_suffix) \notin VALID_VIDEO_EXTENSIONS
    THEN "ValueError"
    ELSE IF ~IsNone(r.output_dir) /\ out.exc # "none" THEN out.exc
    ELSE IF ~IsNone(r.fps) /\ Val(r.fps) <= 0 THEN "ValueError"
    ELSE IF ~IsNone(r.start_time) /\ Val(r.start_time) <= 0 THEN "ValueError"
    ELSE IF ~IsNone(r.end_time) /\ Val(r.end_time) < 0 THEN "ValueError"
    ELSE IF ~IsNone(r.end_time) /\ ~IsNone(r.start_time)
            /\ Val(r.end_time) <= Val(r.start_time) THEN "ValueError"
    ELSE "none"

\* The checks of __init__, in order: the exception raised, or "none".
\* exists: os.path.exists(video_path); out: validate_output_path's result.
InitChecks(r, exists, out) ==
    IF ~exists THEN "FileNotFoundError"
    ELSE IF ~r.allow_any_extension /\ StrLower(r.video_suffix) \notin VALID_VIDEO_EXTENSIONS
    THEN "ValueError"
    ELSE IF ~IsNone(r.output_dir) /\ out.exc # "none" THEN out.exc
    ELSE IF ~IsNone(r.fps) /\ Val(r.fps) <= 0 THEN "ValueError"
    ELSE IF ~IsNone(r.start_time) /\ Val(r.start_time) < 0 THEN "ValueError"
    ELSE IF ~IsNone(r.end_time) /\ Val(r.end_time) < 0 THEN "ValueError"
    ELSE IF ~IsNone(r.end_time) /\ ~IsNone(r.start_time)
            /\ Val(r.end_time) <= Val(r.start_time) THEN "ValueError"
    ELSE "none"

\* Mutant: the fallback is the uniform strategy.
DefaultStrategyUniform(strategy) == IF strategy = "None" THEN "UniformFramesStrategy" ELSE strategy

\* self.strategy = strategy or AllFramesStrategy(...)
DefaultStrategy(strategy) == IF strategy = "None" THEN "AllFramesStrategy" ELSE strategy

\* Has __init__ reached validate_output_path?
ReachesOutput(r, exists) ==
    /\ exists
    /\ r.allow_any_extension \/ StrLower(r.video_suffix) \in VALID_VIDEO_EXTENSIONS
    /\ ~IsNone(r.output_dir)

\* VideoFrameExtractor.__init__
Construct ==
    /\ pc = "new"
    /\ \E pre \in {"dir", "file", "absent"}, mkdir_ok \in BOOLEAN :
         LET exists == env.video # "missing"
             out == validate_output_path(pre, TRUE, mkdir_ok)
             e == InitChecks(req, exists, out)
             seen == ReachesOutput(req, exists)
         IN  /\ env.output = "unobserved" \/ pre = env.output
             /\ env' = [env EXCEPT !.output_pre = IF seen THEN pre ELSE env.output_pre,
                                   !.output = IF seen THEN out.post ELSE env.output]
             /\ IF e # "none"
                THEN /\ Raise(e, "init")
                     /\ UNCHANGED self
                ELSE /\ self' = Some([video_stem |-> req.video_stem,
                                      video_suffix |-> req.video_suffix,
                                      output_dir |-> req.output_dir,
                                      fps |-> req.fps,
                                      start_time |-> req.start_time,
                                      end_time |-> req.end_time,
                                      strategy |-> DefaultStrategy(req.strategy),
                                      reset_indices |-> req.reset_indices])
                     /\ pc' = "constructed"
                     /\ trace' = Append(trace, Event("init", TRUE))
                     /\ UNCHANGED exc
    /\ UNCHANGED <<args, req, metadata, sel, ffmpeg, cli, lookup>>

\* Mutant: output that is not JSON is read as a stream without fields.
get_metadata_reads_bad_json(p) ==
    IF p.status \notin {"ok", "bad_json"} THEN None
    ELSE IF p.rate[2] = 0 THEN None
    ELSE Some([duration |-> p.duration, avg_fps |-> p.rate])

\* get_metadata: None on any exception (the command fails, json.loads fails,
\* streams is empty, a conversion fails, eval divides by zero), else the
\* fields asked for.
get_metadata(p) ==
    IF p.status # "ok" THEN None
    ELSE IF p.rate[2] = 0 THEN None
    ELSE Some([duration |-> p.duration, avg_fps |-> p.rate])

\* The caller of the constructed extractor: a library user may call either
\* method, the CLI calls the one of its command.
Calls(command) == IF IsNone(args) THEN TRUE ELSE Val(args).command = command

\* VideoFrameExtractor.extract_frames up to the call of the strategy:
\* the probe, the check of its result, and the arguments of the call
\* (self.output_dir is set only when an output_dir was given).
ExtractFrames ==
    /\ pc = "constructed"
    /\ Calls("extract")
    /\ \E p \in ProbeOutcomes :
         LET md == get_metadata(p)
             called == Append(trace, Event("extract_frames", TRUE))
         IN  /\ env' = [env EXCEPT !.probe = Some(p)]
             /\ metadata' = md
             /\ IF IsNone(md)
                THEN /\ pc' = "raised"
                     /\ exc' = "ValueError"
                     /\ trace' = Append(called, Event("probe", FALSE))
                ELSE IF IsNone(Val(self).output_dir)
                     THEN /\ pc' = "raised"
                          /\ exc' = "AttributeError"
                          /\ trace' = Append(called, Event("probe", TRUE))
                     ELSE /\ pc' = "strategy"
                          /\ trace' = Append(called, Event("probe", TRUE))
                          /\ UNCHANGED exc
    /\ UNCHANGED <<args, req, self, sel, ffmpeg, cli, lookup>>

\* extractor.get_metadata() called by the user of the object (main.py
\* run_metadata, cli.py get_metadata): the result is printed when not None.
GetMetadataCall ==
    /\ pc = "constructed"
    /\ Calls("metadata")
    /\ \E p \in ProbeOutcomes :
         /\ env' = [env EXCEPT !.probe = Some(p)]
         /\ metadata' = get_metadata(p)
         /\ trace' = Append(trace, Event("get_metadata", ~IsNone(get_metadata(p))))
    /\ pc' = ReturnTo
    /\ UNCHANGED <<args, req, self, sel, ffmpeg, exc, cli, lookup>>

----------------------------------------------------------------------------
(* frame_extraction_strategy.py: the three strategies *)

Strategy == Val(self).strategy

\* The strategy's validation passed: its locals are kept and the run goes on at "to".
Validated(locals, to) ==
    /\ sel' = locals
    /\ pc' = to
    /\ trace' = Append(trace, Event("strategy", TRUE))
    /\ UNCHANGED exc

\* Mutant: the all-frames strategy runs the command before it validates the times.
AllFramesExtractRunsFirst ==
    /\ pc = "strategy"
    /\ Strategy = "AllFramesStrategy"
    /\ ffmpeg' = Append(ffmpeg, [video |-> <<Val(self).video_stem, Val(self).video_suffix>>,
                                 ss |-> 0, to |-> Val(metadata).duration,
                                 filter |-> [kind |-> "passthrough", fps |-> 0,
                                             terms |-> <<>>],
                                 frame_pts |-> ~Val(self).reset_indices,
                                 output |-> Val(Val(self).output_dir)])
    /\ LET tr == _validate_time_range(metadata, Val(self).start_time, Val(self).end_time)
       IN  IF tr.exc # "none"
           THEN /\ pc' = "raised"
                /\ exc' = tr.exc
                /\ trace' = trace \o <<Event("ffmpeg", TRUE), Event("strategy", FALSE)>>
           ELSE /\ pc' = "done"
                /\ trace' = trace \o <<Event("ffmpeg", TRUE), Event("strategy", TRUE)>>
                /\ UNCHANGED exc
    /\ UNCHANGED <<args, req, self, env, metadata, sel, cli, lookup>>

\* AllFramesStrategy.extract_frames up to common_frame_extraction_logic
AllFramesExtract ==
    /\ pc = "strategy"
    /\ Strategy = "AllFramesStrategy"
    /\ LET tr == _validate_time_range(metadata, Val(self).start_time, Val(self).end_time)
       IN  IF tr.exc # "none"
           THEN Raise(tr.exc, "strategy") /\ UNCHANGED sel
           ELSE Validated([NoSel EXCEPT !.start = tr.start, !.end = tr.end,
                                        !.filter = Some([kind |-> "passthrough", fps |-> 0,
                                                         terms |-> <<>>])],
                          "common")
    /\ UNCHANGED <<args, req, self, env, metadata, ffmpeg, cli, lookup>>

\* UniformFramesStrategy.extract_frames up to common_frame_extraction_logic
UniformFramesExtract ==
    /\ pc = "strategy"
    /\ Strategy = "UniformFramesStrategy"
    /\ LET f == _validate_fps(Val(self).fps)
           a == _validate_avg_fps(metadata)
           tr == _validate_time_range(metadata, Val(self).start_time, Val(self).end_time)
       IN  IF f.exc # "none" THEN Raise(f.exc, "strategy") /\ UNCHANGED sel
           ELSE IF a.exc # "none" THEN Raise(a.exc, "strategy") /\ UNCHANGED sel
           ELSE IF FpsExceeds(f.fps, a.avg_fps)
                THEN Raise("ValueError", "strategy") /\ UNCHANGED sel
           ELSE IF tr.exc # "none" THEN Raise(tr.exc, "strategy") /\ UNCHANGED sel
           ELSE Validated([NoSel EXCEPT !.fps = f.fps, !.avg_fps = a.avg_fps,
                                        !.start = tr.start, !.end = tr.end,
                                        !.filter = Some([kind |-> "fps", fps |-> f.fps,
                                                         terms |-> <<>>])],
                          "common")
    /\ UNCHANGED <<args, req, self, env, metadata, ffmpeg, cli, lookup>>

\* FixedRandomFramesStrategy.extract_frames up to the call of _select_random_frames
FixedRandomExtract ==
    /\ pc = "strategy"
    /\ Strategy = "FixedRandomFramesStrategy"
    /\ LET f == _validate_fps(Val(self).fps)
           a == _validate_avg_fps(metadata)
           tr == _validate_time_range(metadata, Val(self).start_time, Val(self).end_time)
       IN  IF f.exc # "none" THEN Raise(f.exc, "strategy") /\ UNCHANGED sel
           ELSE IF a.exc # "none" THEN Raise(a.exc, "strategy") /\ UNCHANGED sel
           ELSE IF tr.exc # "none" THEN Raise(tr.exc, "strategy") /\ UNCHANGED sel
           ELSE Validated([NoSel EXCEPT !.fps = f.fps, !.avg_fps = a.avg_fps,
                                        !.start = tr.start, !.end = tr.end],
                          "select")
    /\ UNCHANGED <<args, req, self, env, metadata, ffmpeg, cli, lookup>>

\* Mutant: max for min.
NumFramesMax(fps, frame_range) == IF fps >= frame_range THEN fps ELSE frame_range

\* num_frames_to_extract = min(fps, frame_range)
NumFramesToExtract(fps, frame_range) == Min(fps, frame_range)

\* sorted(): insertion of x into the ascending sequence s
RECURSIVE Insert(_, _)
Insert(x, s) ==
    IF s = <<>> THEN <<x>>
    ELSE IF x <= Head(s) THEN <<x>> \o s
    ELSE <<Head(s)>> \o Insert(x, Tail(s))

RECURSIVE InsertionSort(_)
InsertionSort(s) == IF s = <<>> THEN <<>> ELSE Insert(Head(s), InsertionSort(Tail(s)))

\* Mutant: the sample is returned as drawn.
Unsorted(s) == s

Sorted(s) == InsertionSort(s)

\* _build_select_filter: one eq(n\,idx) term per index, in the list's order, joined by "+"
_build_select_filter(frame_indices) ==
    [kind |-> "select", fps |-> 0,
     terms |-> [i \in 1..Len(frame_indices) |-> frame_indices[i]]]

\* The list _select_random_frames returned goes to _build_select_filter.
Selected(frames) ==
    /\ sel' = [sel EXCEPT !.frames = Some(frames),
                          !.filter = Some(_build_select_filter(frames))]
    /\ pc' = "common"
    /\ trace' = Append(trace, Event("select", TRUE))

\* _select_random_frames: the frame range, and the early return of [].
SelectRandomFrames ==
    /\ pc = "select"
    /\ LET start_frame == FrameAt(sel.start, sel.avg_fps)
           end_frame == FrameAt(sel.end, sel.avg_fps)
           frame_range == end_frame - start_frame
       IN  IF frame_range <= 0
           THEN /\ sel' = [sel EXCEPT !.start_frame = start_frame, !.end_frame = end_frame,
                                      !.frames = Some(<<>>),
                                      !.filter = Some(_build_select_filter(<<>>))]
                /\ pc' = "common"
                /\ trace' = Append(trace, Event("select", TRUE))
           ELSE /\ sel' = [sel EXCEPT !.start_frame = start_frame, !.end_frame = end_frame,
                                      !.num = NumFramesToExtract(sel.fps, frame_range)]
                /\ pc' = "sample"
                /\ UNCHANGED trace
    /\ UNCHANGED <<args, req, self, env, metadata, ffmpeg, exc, cli, lookup>>

\* random.sample(range(start_frame, end_frame), num): one draw, without replacement.
Draw ==
    /\ pc = "sample"
    /\ Len(sel.samples) < sel.num
    /\ \E i \in sel.start_frame .. sel.end_frame - 1 :
         /\ \A j \in 1..Len(sel.samples) : sel.samples[j] # i
         /\ sel' = [sel EXCEPT !.samples = Append(@, i)]
    /\ UNCHANGED <<pc, args, req, self, env, metadata, ffmpeg, exc, trace, cli, lookup>>

\* samples = sorted(random.sample(...)); return samples
SortSamples ==
    /\ pc = "sample"
    /\ Len(sel.samples) = sel.num
    /\ Selected(Sorted(sel.samples))
    /\ UNCHANGED <<args, req, self, env, metadata, ffmpeg, exc, cli, lookup>>

\* "".join of a sequence of one-character strings
RECURSIVE JoinChars(_)
JoinChars(cs) == IF cs = <<>> THEN "" ELSE Head(cs) \o JoinChars(Tail(cs))

\* The text of a video path: stem and suffix
VideoPathStr(stem, suffix) == stem \o JoinChars(suffix)

\* The text of an output directory: "out" is the directory the caller chose
RECURSIVE OutputDirStr(_)
OutputDirStr(path) ==
    IF path = <<>> THEN "out"
    ELSE OutputDirStr(SubSeq(path, 1, Len(path) - 1)) \o "/" \o path[Len(path)]

\* str(t) for the time of t ticks: the text of the rational t/TimeDen
TimeStr(t) == ToString(t) \o "/" \o ToString(TimeDen)

\* "+".join(rf"eq(n\,{idx})" for idx in frame_indices)
RECURSIVE JoinTerms(_)
JoinTerms(terms) ==
    IF terms = <<>> THEN ""
    ELSE IF Len(terms) = 1 THEN "eq(n\\," \o ToString(terms[1]) \o ")"
    ELSE "eq(n\\," \o ToString(terms[1]) \o ")" \o "+" \o JoinTerms(Tail(terms))

\* The filter_args each strategy passes to common_frame_extraction_logic
FilterArgs(filter) ==
    CASE filter.kind = "passthrough" -> <<"-fps_mode", "passthrough">>
      [] filter.kind = "fps" -> <<"-vf", "fps=" \o ToString(filter.fps)>>
      [] filter.kind = "select" ->
             <<"-vf", "select='" \o JoinTerms(filter.terms) \o "'", "-vsync", "vfr">>

\* Mutant: -frame_pts true is added when reset_indices is set.
CommandFramePtsOnReset(video_path, filter_args, output_dir, start_time, end_time, reset_indices) ==
    <<"ffmpeg", "-i", video_path, "-ss", TimeStr(start_time), "-to", TimeStr(end_time)>>
    \o filter_args
    \o (IF reset_indices THEN <<"-frame_pts", "true">> ELSE <<>>)
    \o <<output_dir \o "/" \o "frame_%06d.png">>

\* The command list of common_frame_extraction_logic
Command(video_path, filter_args, output_dir, start_time, end_time, reset_indices) ==
    <<"ffmpeg", "-i", video_path, "-ss", TimeStr(start_time), "-to", TimeStr(end_time)>>
    \o filter_args
    \o (IF ~reset_indices THEN <<"-frame_pts", "true">> ELSE <<>>)
    \o <<output_dir \o "/" \o "frame_%06d.png">>

\* common_frame_extraction_logic: the command is built and ffmpeg run
\* (subprocess.run without check: its exit status raises nothing).
CommonFrameExtractionLogic ==
    /\ pc = "common"
    /\ ffmpeg' = Append(ffmpeg, [video |-> <<Val(self).video_stem, Val(self).video_suffix>>,
                                 ss |-> sel.start, to |-> sel.end,
                                 filter |-> Val(sel.filter),
                                 frame_pts |-> ~Val(self).reset_indices,
                                 output |-> Val(Val(self).output_dir),
                                 argv |-> Command(VideoPathStr(Val(self).video_stem,
                                                               Val(self).video_suffix),
                                                  FilterArgs(Val(sel.filter)),
                                                  OutputDirStr(Val(Val(self).output_dir)),
                                                  sel.start, sel.end,
                                                  Val(self).reset_indices)])
    /\ pc' = ReturnTo
    /\ trace' = Append(trace, Event("ffmpeg", TRUE))
    /\ UNCHANGED <<args, req, self, env, metadata, sel, exc, cli, lookup>>

----------------------------------------------------------------------------
(* Runs of the library: VideoFrameExtractor(...) and then extract_frames() *)

Init ==
    /\ pc = "new"
    /\ args = None
    /\ req \in Requests
    /\ self = None
    /\ env \in {[NoEnv EXCEPT !.video = v] : v \in {"file", "missing"}}
    /\ metadata = None
    /\ sel = NoSel
    /\ ffmpeg = <<>>
    /\ exc = "none"
    /\ trace = <<>>
    /\ cli = NoLoop
    /\ lookup = NoLookup

Next ==
    \/ Construct
    \/ ExtractFrames
    \/ GetMetadataCall
    \/ AllFramesExtract
    \/ UniformFramesExtract
    \/ FixedRandomExtract
    \/ SelectRandomFrames
    \/ Draw
    \/ SortSamples
    \/ CommonFrameExtractionLogic

Spec == Init /\ [][Next]_vars

----------------------------------------------------------------------------
(* cli.py: VideoFrameExtractorCLI *)

\* Every spelling of the word w in upper- and lower-case letters.
CaseSpellings(w) ==
    { [i \in 1..Len(w) |-> IF m[i] THEN UpperChar(w[i]) ELSE w[i]] :
          m \in [1..Len(w) -> BOOLEAN] }

\* The --strategy values tried: every spelling of "all", spellings of the
\* other two names, the empty string and a name of no strategy.
CliNames ==
    CaseSpellings(STRATEGY_NAME("AllFramesStrategy"))
    \cup { STRATEGY_NAME("UniformFramesStrategy"),
           <<"U", "n", "i", "f", "o", "r", "m">>,
           STRATEGY_NAME("FixedRandomFramesStrategy"),
           <<"F", "I", "X", "E", "D", "_", "R", "A", "N", "D", "O", "M">>,
           <<>>,
           <<"a", "l">> }

\* The argparse namespace of "extract" (--start_time defaults to 0) ...
ExtractArgs ==
    [ command : {"extract"},
      strategy : {None} \cup {Some(n) : n \in CliNames},
      video_stem : {"sample"}, video_suffix : Suffixes, allow_any_extension : BOOLEAN,
      fps : OptFps,
      start_time : {Some(t) : t \in -1..MaxTime},
      end_time : OptTimes,
      reset_indices : BOOLEAN ]

\* ... and of "metadata", which has --video_path, --allow_any_extension, --verbose.
MetadataArgs ==
    [ command : {"metadata"},
      strategy : {None},
      video_stem : {"sample"}, video_suffix : Suffixes, allow_any_extension : BOOLEAN,
      fps : {None}, start_time : {None}, end_time : {None},
      reset_indices : {FALSE} ]

Args == Val(args)

\* Mutant: get_strategy without the check for a missing --fps.
get_strategy_no_fps_check(a) ==
    IF IsNone(a.strategy) THEN [exc |-> "none", strategy |-> "None"]
    ELSE IF Val(a.strategy) = <<>> THEN [exc |-> "none", strategy |-> "None"]
    ELSE LET r == get_strategy_class(Val(a.strategy))
         IN  IF r.exc # "none" THEN [exc |-> r.exc, strategy |-> "None"]
             ELSE [exc |-> "none", strategy |-> r.cls]

\* VideoFrameExtractorCLI.get_strategy: the exception raised, and the
\* strategy instance returned ("None": the extractor falls back to its default).
get_strategy(a) ==
    IF IsNone(a.strategy) THEN [exc |-> "none", strategy |-> "None"]
    ELSE IF Val(a.strategy) = <<>> THEN [exc |-> "none", strategy |-> "None"]
    ELSE LET r == get_strategy_class(Val(a.strategy))
         IN  IF r.exc # "none" THEN [exc |-> r.exc, strategy |-> "None"]
             ELSE IF Val(a.strategy) # <<"a", "l", "l">> /\ IsNone(a.fps)
                  THEN [exc |-> "ValueError", strategy |-> "None"]
                  ELSE [exc |-> "none", strategy |-> r.cls]

\* The CLI's own check of a file's extension
CliUnsupported(a) ==
    ~a.allow_any_extension /\ StrLower(a.video_suffix) \notin VALID_VIDEO_EXTENSIONS

\* Mutant: the dispatch with the two commands swapped.
RunSwapped ==
    /\ pc = "cli"
    /\ pc' = IF Args.command = "extract" THEN "cli_metadata"
             ELSE IF Args.command = "metadata" THEN "cli_extract"
             ELSE "done"
    /\ trace' = Append(trace, Event("run", TRUE))
    /\ UNCHANGED <<args, req, self, env, metadata, sel, ffmpeg, exc, cli, lookup>>

\* VideoFrameExtractorCLI.run: the dispatch on the command
Run ==
    /\ pc = "cli"
    /\ pc' = IF Args.command = "extract" THEN "cli_extract"
             ELSE IF Args.command = "metadata" THEN "cli_metadata"
             ELSE "done"
    /\ trace' = Append(trace, Event("run", TRUE))
    /\ UNCHANGED <<args, req, self, env, metadata, sel, ffmpeg, exc, cli, lookup>>

\* The entries a directory may hold, and what iterdir() may yield: the
\* entries in any order.
DirEntries ==
    { [stem |-> "a", suffix |-> <<Dot, "M", "p", "4">>],
      [stem |-> "a", suffix |-> <<Dot, "a", "v", "i">>],
      [stem |-> "b", suffix |-> <<Dot, "t", "x", "t">>] }

DirListings ==
    UNION { { l \in [1..n -> DirEntries] : \A i, j \in 1..n : i # j => l[i] # l[j] } :
                n \in 0..MaxEntries }

\* sub_output.mkdir(parents=True, exist_ok=True): the exception raised.
\* pre is the state of the path before the call, mkdir_ok whether the
\* directory can be made.
MkdirExistOk(pre, mkdir_ok) ==
    IF pre = "dir" THEN "none"
    ELSE IF pre = "file" THEN "FileExistsError"
    ELSE IF mkdir_ok THEN "none" ELSE "OSError"

\* VideoFrameExtractorCLI.extract_frames up to the construction of the
\* extractor (a file) or to the loop over the entries (a directory).
CliExtractFrames ==
    /\ pc = "cli_extract"
    /\ LET gs == get_strategy(Args)
       IN  IF gs.exc # "none"
           THEN Raise(gs.exc, "get_strategy") /\ UNCHANGED <<req, cli>>
           ELSE IF env.video = "file"
                THEN IF CliUnsupported(Args)
                     THEN Raise("ValueError", "cli_extract") /\ UNCHANGED <<req, cli>>
                     ELSE /\ req' = [video_stem |-> Args.video_stem,
                                     video_suffix |-> Args.video_suffix,
                                     allow_any_extension |-> FALSE,
                                     output_dir |-> Some(OutputRoot),
                                     fps |-> Args.fps,
                                     start_time |-> Args.start_time,
                                     end_time |-> Args.end_time,
                                     strategy |-> gs.strategy,
                                     reset_indices |-> Args.reset_indices]
                          /\ pc' = "new"
                          /\ trace' = Append(trace, Event("cli_extract", TRUE))
                          /\ UNCHANGED <<exc, cli>>
                ELSE IF env.video = "dir"
                     THEN /\ \E l \in DirListings : cli' = [NoLoop EXCEPT !.listing = l]
                          /\ pc' = "cli_dir"
                          /\ trace' = Append(trace, Event("cli_extract", TRUE))
                          /\ UNCHANGED <<req, exc>>
                     ELSE Raise("FileNotFoundError", "cli_extract") /\ UNCHANGED <<req, cli>>
    /\ UNCHANGED <<args, self, env, metadata, sel, ffmpeg, lookup>>

\* The body of extract_frames' loop over a directory, for one entry, up to
\* the construction of its extractor: an entry of another extension is skipped.
CliExtractEntry ==
    /\ pc = "cli_dir"
    /\ Args.command = "extract"
    /\ cli.next <= Len(cli.listing)
    /\ LET vid_file == cli.listing[cli.next]
       IN  IF StrLower(vid_file.suffix) \in VALID_VIDEO_EXTENSIONS
           THEN \E pre \in {"dir", "file", "absent"}, mkdir_ok \in BOOLEAN :
                  LET e == MkdirExistOk(pre, mkdir_ok)
                  IN  /\ vid_file.stem \in cli.made => pre = "dir"
                      /\ IF e # "none"
                         THEN /\ Raise(e, "mkdir")
                              /\ env' = [env EXCEPT !.output_pre = pre, !.output = pre]
                              /\ UNCHANGED <<req, self, metadata, sel, cli>>
                         ELSE /\ req' = [video_stem |-> vid_file.stem,
                                         video_suffix |-> vid_file.suffix,
                                         allow_any_extension |-> FALSE,
                                         output_dir |-> Some(<<vid_file.stem>>),
                                         fps |-> Args.fps,
                                         start_time |-> Args.start_time,
                                         end_time |-> Args.end_time,
                                         strategy |-> get_strategy(Args).strategy,
                                         reset_indices |-> Args.reset_indices]
                              /\ env' = [env EXCEPT !.output_pre = pre, !.output = "dir"]
                              /\ cli' = [cli EXCEPT !.next = @ + 1,
                                                    !.made = @ \cup {vid_file.stem}]
                              /\ self' = None
                              /\ metadata' = None
                              /\ sel' = NoSel
                              /\ pc' = "new"
                              /\ trace' = Append(trace, Event("mkdir", TRUE))
                              /\ UNCHANGED exc
           ELSE /\ cli' = [cli EXCEPT !.next = @ + 1]
                /\ trace' = Append(trace, Event("skip", TRUE))
                /\ UNCHANGED <<pc, req, self, env, metadata, sel, exc>>
    /\ UNCHANGED <<args, ffmpeg, lookup>>

\* VideoFrameExtractorCLI.get_metadata up to the construction of the
\* extractor (a file) or to the loop over the entries (a directory).  A path
\* that is neither falls through both branches: the method returns.
CliGetMetadata ==
    /\ pc = "cli_metadata"
    /\ IF env.video = "file"
       THEN IF CliUnsupported(Args)
            THEN Raise("ValueError", "cli_metadata") /\ UNCHANGED <<req, cli>>
            ELSE /\ req' = [NoRequest EXCEPT !.video_stem = Args.video_stem,
                                             !.video_suffix = Args.video_suffix]
                 /\ pc' = "new"
                 /\ trace' = Append(trace, Event("cli_metadata", TRUE))
                 /\ UNCHANGED <<exc, cli>>
       ELSE IF env.video = "dir"
            THEN /\ \E l \in DirListings : cli' = [NoLoop EXCEPT !.listing = l]
                 /\ pc' = "cli_dir"
                 /\ trace' = Append(trace, Event("cli_metadata", TRUE))
                 /\ UNCHANGED <<req, exc>>
            ELSE /\ pc' = "done"
                 /\ trace' = Append(trace, Event("cli_metadata", TRUE))
                 /\ UNCHANGED <<req, exc, cli>>
    /\ UNCHANGED <<args, self, env, metadata, sel, ffmpeg, lookup>>

\* The body of get_metadata's loop over a directory, for one entry, up to
\* the construction of its extractor.
CliMetadataEntry ==
    /\ pc = "cli_dir"
    /\ Args.command = "metadata"
    /\ cli.next <= Len(cli.listing)
    /\ LET vid_file == cli.listing[cli.next]
       IN  IF StrLower(vid_file.suffix) \in VALID_VIDEO_EXTENSIONS
           THEN /\ req' = [NoRequest EXCEPT !.video_stem = vid_file.stem,
                                            !.video_suffix = vid_file.suffix]
                /\ self' = None
                /\ metadata' = None
                /\ pc' = "new"
                /\ trace' = Append(trace, Event("entry", TRUE))
           ELSE /\ trace' = Append(trace, Event("skip", TRUE))
                /\ UNCHANGED <<pc, req, self, metadata>>
    /\ cli' = [cli EXCEPT !.next = @ + 1]
    /\ UNCHANGED <<args, env, sel, ffmpeg, exc, lookup>>

\* The loop over the directory is exhausted: the method returns.
CliDirDone ==
    /\ pc = "cli_dir"
    /\ cli.next > Len(cli.listing)
    /\ pc' = "done"
    /\ UNCHANGED <<args, req, self, env, metadata, sel, ffmpeg, exc, trace, cli, lookup>>

----------------------------------------------------------------------------
(* Runs of the command line: main() on a parsed command *)

InitCLI ==
    /\ pc = "cli"
    /\ args \in {Some(a) : a \in ExtractArgs \cup MetadataArgs}
    /\ req = NoRequest
    /\ self = None
    /\ env \in {[NoEnv EXCEPT !.video = v] : v \in {"file", "missing"}}
    /\ metadata = None
    /\ sel = NoSel
    /\ ffmpeg = <<>>
    /\ exc = "none"
    /\ trace = <<>>
    /\ cli = NoLoop
    /\ lookup = NoLookup

NextCLI ==
    \/ Run
    \/ CliExtractFrames
    \/ CliGetMetadata
    \/ Construct
    \/ ExtractFrames
    \/ GetMetadataCall
    \/ AllFramesExtract
    \/ UniformFramesExtract
    \/ FixedRandomExtract
    \/ SelectRandomFrames
    \/ Draw
    \/ SortSamples
    \/ CommonFrameExtractionLogic

SpecCLI == InitCLI /\ [][NextCLI]_vars

----------------------------------------------------------------------------
(* Runs of the command line on a directory *)

DirArgs ==
    [ command : {"extract"},
      strategy : {None, Some(STRATEGY_NAME("FixedRandomFramesStrategy")),
                  Some(STRATEGY_NAME("UniformFramesStrategy"))},
      video_stem : {"videos"}, video_suffix : {<<>>}, allow_any_extension : BOOLEAN,
      fps : {None, Some(1)},
      start_time : {Some(0)},
      end_time : {None, Some(MaxDuration)},
      reset_indices : {FALSE} ]
    \cup [ command : {"metadata"},
           strategy : {None},
           video_stem : {"videos"}, video_suffix : {<<>>}, allow_any_extension : BOOLEAN,
           fps : {None}, start_time : {None}, end_time : {None},
           reset_indices : {FALSE} ]

InitDir ==
    /\ pc = "cli"
    /\ args \in {Some(a) : a \in DirArgs}
    /\ req = NoRequest
    /\ self = None
    /\ env = [NoEnv EXCEPT !.video = "dir"]
    /\ metadata = None
    /\ sel = NoSel
    /\ ffmpeg = <<>>
    /\ exc = "none"
    /\ trace = <<>>
    /\ cli = NoLoop
    /\ lookup = NoLookup

NextDir ==
    \/ NextCLI
    \/ CliExtractEntry
    \/ CliMetadataEntry
    \/ CliDirDone

SpecDir == InitDir /\ [][NextDir]_vars

----------------------------------------------------------------------------
(* Calls of get_strategy_class *)

NameAlphabet == {"a", "A", "l", "L", "x"}

StrategyWords == { STRATEGY_NAME(Subclasses[i]) : i \in 1..Len(Subclasses) }

\* The names looked up: every spelling of the three strategy names, each
\* with a letter added or its last letter dropped, and every string over
\* NameAlphabet of at most MaxNameLen letters.
NameInputs ==
    UNION { CaseSpellings(w) : w \in StrategyWords }
    \cup { Append(w, "x") : w \in StrategyWords }
    \cup { SubSeq(w, 1, Len(w) - 1) : w \in StrategyWords }
    \cup UNION { [1..n -> NameAlphabet] : n \in 0..MaxNameLen }

GetStrategyClass ==
    /\ pc = "lookup"
    /\ LET r == get_strategy_class(lookup.name)
       IN  lookup' = [lookup EXCEPT !.cls = r.cls, !.exc = r.exc]
    /\ pc' = "returned"
    /\ UNCHANGED <<args, req, self, env, metadata, sel, ffmpeg, exc, trace, cli>>

InitNames ==
    /\ pc = "lookup"
    /\ args = None
    /\ req = NoRequest
    /\ self = None
    /\ env = NoEnv
    /\ metadata = None
    /\ sel = NoSel
    /\ ffmpeg = <<>>
    /\ exc = "none"
    /\ trace = <<>>
    /\ cli = NoLoop
    /\ lookup \in {[NoLookup EXCEPT !.name = n] : n \in NameInputs}

NextNames == GetStrategyClass

SpecNames == InitNames /\ [][NextNames]_vars

----------------------------------------------------------------------------
(* Calls of validate_output_path, one after the other on the same path *)

\* One call: the path is as the calls before left it; the caller chooses
\* create_if_missing, the file system whether a mkdir would succeed.  The
\* function returns its argument when it raises nothing.
ValidateOutputPath ==
    /\ pc = "path"
    /\ Len(trace) < MaxCalls
    /\ \E create_if_missing \in BOOLEAN, mkdir_ok \in BOOLEAN :
         LET out == validate_output_path(env.output, create_if_missing, mkdir_ok)
         IN  /\ env' = [env EXCEPT !.output_pre = env.output, !.output = out.post]
             /\ exc' = out.exc
             /\ trace' = Append(trace, Event(IF create_if_missing THEN "validate_create"
                                                                  ELSE "validate_only",
                                             out.exc = "none"))
    /\ UNCHANGED <<pc, args, req, self, metadata, sel, ffmpeg, cli, lookup>>

InitPath ==
    /\ pc = "path"
    /\ args = None
    /\ req = NoRequest
    /\ self = None
    /\ env \in {[NoEnv EXCEPT !.output_pre = k, !.output = k] : k \in {"dir", "file", "absent"}}
    /\ metadata = None
    /\ sel = NoSel
    /\ ffmpeg = <<>>
    /\ exc = "none"
    /\ trace = <<>>
    /\ cli = NoLoop
    /\ lookup = NoLookup

NextPath == ValidateOutputPath

SpecPath == InitPath /\ [][NextPath]_vars

----------------------------------------------------------------------------
(* Calls of a strategy's extract_frames by a user of the strategy classes,  *)
(* with any arguments: the times, the fps and the metadata have passed no   *)
(* check of VideoFrameExtractor.  The arguments are held where              *)
(* VideoFrameExtractor.extract_frames takes them from: self and metadata.   *)
(* A metadata without the key the strategy reads is the metadata None: the  *)
(* validation routines treat the two alike.                                 *)

StrategyCalls ==
    [ video_stem : {"sample"}, video_suffix : {<<Dot, "m", "p", "4">>},
      output_dir : {Some(OutputRoot)},
      fps : OptFps, start_time : OptTimes, end_time : OptTimes,
      strategy : {Subclasses[i] : i \in 1..Len(Subclasses)},
      reset_indices : BOOLEAN ]

Metadatas ==
    {None} \cup { Some([duration |-> d, avg_fps |-> r]) :
                      d \in -1..MaxDuration, r \in {q \in Rates : q[2] > 0} }

InitStrategy ==
    /\ pc = "strategy"
    /\ args = None
    /\ req = NoRequest
    /\ self \in {Some(c) : c \in StrategyCalls}
    /\ env = NoEnv
    /\ metadata \in Metadatas
    /\ sel = NoSel
    /\ ffmpeg = <<>>
    /\ exc = "none"
    /\ trace = <<>>
    /\ cli = NoLoop
    /\ lookup = NoLookup

NextStrategy ==
    \/ AllFramesExtract
    \/ UniformFramesExtract
    \/ FixedRandomExtract
    \/ SelectRandomFrames
    \/ Draw
    \/ SortSamples
    \/ CommonFrameExtractionLogic

SpecStrategy == InitStrategy /\ [][NextStrategy]_vars

----------------------------------------------------------------------------
(* Properties *)

Terminated == pc \in {"done", "raised"}

\* How often the event named ev occurs in the trace
Count(ev) == Cardinality({i \in DOMAIN trace : trace[i].ev = ev})

\* Event e occurs in the trace before position i
Before(e, i) == \E j \in 1..(i - 1) : trace[j] = e

\* The rational rate is positive
RatePositive(rate) == rate[1] > 0 /\ rate[2] > 0

\* floor(t * rate) for the time t in ticks, t >= 0
FloorFrame(t, rate) == (t * rate[1]) \div (TimeDen * rate[2])

\* _select_random_frames has returned
Returned == ~IsNone(sel.frames)

\* C1: in a run of the constructor followed by extract_frames the events come
\* in the order constructor validation, probe, strategy validation (and, for
\* the fixed-random strategy, the selection), extraction command; the command
\* is run at most once, and only after a probe that returned metadata and a
\* strategy validation that passed.
C1_EventOrder ==
    /\ Len(ffmpeg) <= 1
    /\ Count("ffmpeg") = Len(ffmpeg)
    /\ \A i \in DOMAIN trace :
         /\ trace[i].ev = "probe" => Before(Event("init", TRUE), i)
         /\ trace[i].ev = "strategy" => Before(Event("probe", TRUE), i)
         /\ trace[i].ev = "select" => Before(Event("strategy", TRUE), i)
         /\ trace[i].ev = "ffmpeg" =>
              /\ \E j \in 1..(i - 1) :
                   /\ trace[j] = Event("strategy", TRUE)
                   /\ Before(Event("probe", TRUE), j)
              /\ ~IsNone(metadata)
              /\ ~IsNone(sel.filter)
              /\ Strategy = "FixedRandomFramesStrategy" => Before(Event("select", TRUE), i)
         /\ trace[i].ev \in {"init", "probe", "strategy", "select"} =>
              \A j \in 1..(i - 1) : trace[j].ev # "ffmpeg"

C1_Witness ==
    /\ pc = "done"
    /\ Strategy = "FixedRandomFramesStrategy"
    /\ Len(ffmpeg) = 1
    /\ trace = << Event("init", TRUE), Event("extract_frames", TRUE), Event("probe", TRUE),
                  Event("strategy", TRUE), Event("select", TRUE), Event("ffmpeg", TRUE) >>

\* C2: for fps >= 1, avg_fps > 0 and validated start_time < end_time,
\* _select_random_frames returns exactly min(fps, end_frame - start_frame)
\* indices when end_frame - start_frame > 0 and the empty list otherwise,
\* with start_frame = floor(start_time * avg_fps), end_frame = floor(end_time * avg_fps).
C2_SampleSize ==
    Returned =>
        LET start_frame == FloorFrame(sel.start, sel.avg_fps)
            end_frame == FloorFrame(sel.end, sel.avg_fps)
        IN  /\ sel.fps >= 1 /\ RatePositive(sel.avg_fps) /\ 0 <= sel.start /\ sel.start < sel.end
            /\ end_frame - start_frame > 0 =>
                   Len(Val(sel.frames)) = Min(sel.fps, end_frame - start_frame)
            /\ end_frame - start_frame <= 0 => Val(sel.frames) = <<>>

\* the requested count is clamped to a range of at least two frames
C2_Witness ==
    /\ Returned
    /\ Len(Val(sel.frames)) >= 2
    /\ Len(Val(sel.frames)) < sel.fps
    /\ Len(Val(sel.frames)) = FloorFrame(sel.end, sel.avg_fps) - FloorFrame(sel.start, sel.avg_fps)

\* C3: whatever the random draw, the list _select_random_frames returns is
\* strictly ascending and every index i in it has start_frame <= i < end_frame.
C3_SortedInRange ==
    Returned =>
        LET frames == Val(sel.frames)
        IN  /\ \A i, j \in 1..Len(frames) : i < j => frames[i] < frames[j]
            /\ \A i \in 1..Len(frames) :
                 /\ FloorFrame(sel.start, sel.avg_fps) <= frames[i]
                 /\ frames[i] < FloorFrame(sel.end, sel.avg_fps)

\* a draw that came out of order was returned in order
C3_Witness ==
    /\ Returned
    /\ Len(sel.samples) >= 3
    /\ sel.samples[1] > sel.samples[2]
    /\ sel.samples[2] < sel.samples[3]
    /\ Val(sel.frames) # sel.samples

\* C4: every frame index i in the fixed-random strategy's select expression
\* has its timestamp in the extraction window: start_time <= i / avg_fps < end_time.
C4_IndicesInWindow ==
    Returned =>
        LET terms == Val(sel.filter).terms
            num == sel.avg_fps[1]
            den == sel.avg_fps[2]
        IN  \A k \in 1..Len(terms) :
              /\ sel.start * num <= terms[k] * den * TimeDen
              /\ terms[k] * den * TimeDen < sel.end * num

\* The request meets one of the failure conditions of C5, as far as the run
\* has observed the file system and the probe.
Probed == ~IsNone(env.probe)
ProbedDuration == Val(env.probe).duration
ProbedRate == Val(env.probe).rate
ProbeGood == Val(env.probe).status = "ok" /\ ProbedDuration > 0 /\ RatePositive(ProbedRate)
Given(o) == ~IsNone(o)

C5_FailureCondition ==
    \/ env.video = "missing"
    \/ IsNone(req.fps) /\ DefaultStrategy(req.strategy) # "AllFramesStrategy"
    \/ Given(req.fps) /\ Val(req.fps) <= 0
    \/ Given(req.start_time) /\ Val(req.start_time) < 0
    \/ Given(req.end_time) /\ Val(req.end_time) < 0
    \/ Given(req.start_time) /\ Given(req.end_time) /\ Val(req.end_time) <= Val(req.start_time)
    \/ Probed /\ Given(req.start_time) /\ Val(req.start_time) > ProbedDuration
    \/ Probed /\ Given(req.end_time) /\ Val(req.end_time) > ProbedDuration
    \/ /\ Probed
       /\ req.strategy = "UniformFramesStrategy"
       /\ Given(req.fps)
       /\ Val(req.fps) * ProbedRate[2] > ProbedRate[1]

\* C5: for a video whose probe reports duration D > 0 and rate F > 0, the
\* constructor followed by extract_frames raises, and never runs the
\* extraction command, whenever one of the failure conditions holds.
C5_FailuresRaise ==
    ((Probed => ProbeGood) /\ C5_FailureCondition) =>
        /\ ffmpeg = <<>>
        /\ Count("ffmpeg") = 0
        /\ pc \in {"new", "constructed", "strategy", "raised", "done"}
        /\ pc = "done" => Count("extract_frames") = 0
        /\ pc = "raised" => exc # "none"

\* only the strategy's check against the probed duration rejects the request
C5_Witness ==
    /\ pc = "raised"
    /\ exc = "ValueError"
    /\ Probed /\ ProbeGood
    /\ trace[Len(trace)] = Event("strategy", FALSE)
    /\ IsNone(req.start_time)
    /\ Given(req.end_time) /\ Val(req.end_time) > ProbedDuration
    /\ req.strategy = "FixedRandomFramesStrategy"

\* The preconditions of C6 on the file, the output directory and the probe,
\* as far as the run has observed them.
Supported(r) == r.allow_any_extension \/ StrLower(r.video_suffix) \in VALID_VIDEO_EXTENSIONS

C6_Environment ==
    /\ env.video = "file"
    /\ Supported(req)
    /\ Given(req.output_dir)
    /\ pc # "new" => env.output = "dir"
    /\ Probed => ProbeGood

C6_FpsOk ==
    /\ IsNone(req.fps) => DefaultStrategy(req.strategy) = "AllFramesStrategy"
    /\ Given(req.fps) => Val(req.fps) > 0
    /\ (Probed /\ req.strategy = "UniformFramesStrategy" /\ Given(req.fps)) =>
           Val(req.fps) * ProbedRate[2] <= ProbedRate[1]

\* the conditions on the times as C6 states them
C6_TimesAsClaimed ==
    /\ Given(req.start_time) => 0 <= Val(req.start_time)
    /\ Given(req.end_time) => 0 <= Val(req.end_time)
    /\ (Given(req.start_time) /\ Given(req.end_time)) => Val(req.end_time) > Val(req.start_time)
    /\ (Probed /\ Given(req.start_time)) => Val(req.start_time) <= ProbedDuration
    /\ (Probed /\ Given(req.end_time)) => Val(req.end_time) <= ProbedDuration

\* C6 as stated: an existing supported video, a usable output directory, a
\* probe reporting D > 0 and F > 0, and none of the failure conditions
\* (0 <= start_time <= D, 0 <= end_time <= D, end_time > start_time when both
\* are given, fps positive or None for all-frames, fps <= F for uniform):
\* the constructor followed by extract_frames does not raise.
C6_AsStated ==
    (C6_Environment /\ C6_FpsOk /\ C6_TimesAsClaimed) => pc # "raised"

\* the effective window: start_time or 0, end_time or D
C6_TimesAmended ==
    /\ Given(req.start_time) => 0 <= Val(req.start_time)
    /\ Given(req.end_time) => 0 < Val(req.end_time)
    /\ (Given(req.start_time) /\ Given(req.end_time)) => Val(req.end_time) > Val(req.start_time)
    /\ (Probed /\ Given(req.start_time)) => Val(req.start_time) < ProbedDuration
    /\ (Probed /\ Given(req.end_time)) => Val(req.end_time) <= ProbedDuration

\* C6 amended: as C6, with the window not empty: 0 <= s < e <= D for
\* s = start_time (0 when None) and e = end_time (D when None).  Then the run
\* does not raise, does not get stuck, and ends having run the command once.
C6_ValidRequestsComplete ==
    (C6_Environment /\ C6_FpsOk /\ C6_TimesAmended) =>
        /\ pc # "raised"
        /\ exc = "none"
        /\ ~Terminated => ENABLED Next
        /\ (pc = "done" /\ Count("extract_frames") = 1) => Len(ffmpeg) = 1

C6_Witness ==
    /\ pc = "done"
    /\ C6_Environment /\ C6_FpsOk /\ C6_TimesAmended
    /\ Probed
    /\ Len(ffmpeg) = 1
    /\ req.strategy = "UniformFramesStrategy"
    /\ Given(req.start_time) /\ Given(req.end_time)
    /\ Val(req.end_time) = ProbedDuration

\* The command line names an existing file with a supported extension.
IsCli == ~IsNone(args)
ValidVideoFile ==
    env.video = "file" /\ StrLower(Args.video_suffix) \in VALID_VIDEO_EXTENSIONS

\* Some step before the call of the extractor's method raised.
RaisedBeforeCall ==
    \E i \in DOMAIN trace :
        /\ ~trace[i].ok
        /\ trace[i].ev \in {"get_strategy", "cli_extract", "cli_metadata", "init"}

\* C7 as stated: "extract" on a single valid video file calls
\* VideoFrameExtractor.extract_frames exactly once and never get_metadata from
\* the CLI's metadata path; "metadata" calls get_metadata and never extract_frames.
C7_AsStated ==
    (IsCli /\ Terminated /\ ValidVideoFile) =>
        /\ Args.command = "extract" =>
               Count("extract_frames") = 1 /\ Count("get_metadata") = 0
        /\ Args.command = "metadata" =>
               Count("get_metadata") = 1 /\ Count("extract_frames") = 0

\* C7 amended: on a single valid video file, "extract" never calls
\* get_metadata from the CLI's metadata path and calls extract_frames exactly
\* once unless get_strategy or the constructor raises first, and then never;
\* "metadata" calls get_metadata exactly once and never extract_frames.
C7_Dispatch ==
    (IsCli /\ ValidVideoFile) =>
        /\ Args.command = "extract" =>
             /\ Count("get_metadata") = 0
             /\ Count("extract_frames") <= 1
             /\ RaisedBeforeCall => Count("extract_frames") = 0
             /\ (Terminated /\ ~RaisedBeforeCall) => Count("extract_frames") = 1
        /\ Args.command = "metadata" =>
             /\ Count("extract_frames") = 0
             /\ Count("probe") = 0
             /\ ffmpeg = <<>>
             /\ Count("get_metadata") <= 1
             /\ Terminated => Count("get_metadata") = 1

C7_Witness ==
    /\ IsCli
    /\ pc = "done"
    /\ Args.command = "extract"
    /\ ValidVideoFile
    /\ Count("extract_frames") = 1
    /\ Len(ffmpeg) = 1

\* The --strategy value is a spelling of the word w.
IsSpelling(s, w) ==
    /\ Len(s) = Len(w)
    /\ \A i \in 1..Len(w) : s[i] = w[i] \/ s[i] = UpperChar(w[i])

NamesStrategy(a, cls) ==
    IF IsNone(a.strategy) THEN FALSE ELSE IsSpelling(Val(a.strategy), STRATEGY_NAME(cls))

\* C8: an extract command that names the uniform or the fixed-random
\* strategy and gives no --fps raises ValueError in get_strategy, before any
\* extractor is constructed and before any probe or extraction command.
C8_MissingFpsRaises ==
    (/\ IsCli
     /\ Args.command = "extract"
     /\ NamesStrategy(Args, "UniformFramesStrategy")
            \/ NamesStrategy(Args, "FixedRandomFramesStrategy")
     /\ IsNone(Args.fps)) =>
        /\ pc \in {"cli", "cli_extract", "raised"}
        /\ pc = "raised" =>
             /\ exc = "ValueError"
             /\ trace = <<Event("run", TRUE), Event("get_strategy", FALSE)>>
        /\ req = NoRequest
        /\ IsNone(self)
        /\ ~Probed
        /\ ffmpeg = <<>>

C8_Witness ==
    /\ IsCli
    /\ pc = "raised"
    /\ exc = "ValueError"
    /\ Args.strategy = Some(<<"U", "n", "i", "f", "o", "r", "m">>)
    /\ IsNone(Args.fps)
    /\ trace[Len(trace)] = Event("get_strategy", FALSE)

\* C9: for every spelling of "all" in upper- and lower-case letters,
\* get_strategy with no --fps does not raise and returns an AllFramesStrategy.
C9_AllNeedsNoFps ==
    (/\ IsCli
     /\ Args.command = "extract"
     /\ NamesStrategy(Args, "AllFramesStrategy")
     /\ IsNone(Args.fps)) =>
        /\ \A i \in DOMAIN trace : trace[i] # Event("get_strategy", FALSE)
        /\ pc \in {"new", "constructed"} => req.strategy = "AllFramesStrategy"

\* C10: get_strategy_class(name) returns the class whose STRATEGY_NAME is
\* name lower-cased, for every spelling of the three names in any letter
\* case, and raises ValueError for every other name.
C10_LookupByName ==
    pc = "returned" =>
        /\ \A i \in 1..Len(Subclasses) :
             IsSpelling(lookup.name, STRATEGY_NAME(Subclasses[i])) =>
                 lookup.exc = "none" /\ lookup.cls = Subclasses[i]
        /\ (\A i \in 1..Len(Subclasses) :
                ~IsSpelling(lookup.name, STRATEGY_NAME(Subclasses[i]))) =>
                 lookup.exc = "ValueError"

C10_Witness ==
    /\ pc = "returned"
    /\ lookup.name = <<"F", "i", "x", "e", "D", "_", "r", "A", "n", "d", "o", "M">>
    /\ lookup.cls = "FixedRandomFramesStrategy"
    /\ lookup.exc = "none"

\* C11: validate_output_path(output_dir, create_if_missing) has exactly these
\* outcomes.  An existing directory is returned and the file system is left
\* as it was; an existing path of another kind raises NotADirectoryError; a
\* missing path with create_if_missing is made a directory and returned, or
\* OSError is raised; a missing path without create_if_missing raises
\* FileNotFoundError and nothing is made.
C11_OutputPathOutcomes ==
    (pc = "path" /\ trace # <<>>) =>
        LET call == trace[Len(trace)]
            pre == env.output_pre
            post == env.output
        IN  /\ call.ok <=> exc = "none"
            /\ pre = "dir" => exc = "none" /\ post = "dir"
            /\ pre = "file" => exc = "NotADirectoryError" /\ post = "file"
            /\ (pre = "absent" /\ call.ev = "validate_create") =>
                   \/ exc = "none" /\ post = "dir"
                   \/ exc = "OSError" /\ post = "absent"
            /\ (pre = "absent" /\ call.ev = "validate_only") =>
                   exc = "FileNotFoundError" /\ post = "absent"

\* a call without create_if_missing left the path missing, the next made it
C11_Witness ==
    /\ pc = "path"
    /\ Len(trace) >= 2
    /\ trace[Len(trace) - 1] = Event("validate_only", FALSE)
    /\ trace[Len(trace)] = Event("validate_create", TRUE)
    /\ env.output_pre = "absent"
    /\ env.output = "dir"
    /\ exc = "none"

\* The run ended with the ValueError for an unsupported video format: the
\* CLI's own check, or the check of the constructor (the first one it makes
\* on an existing file).
UnsupportedFormatRaised ==
    /\ pc = "raised"
    /\ exc = "ValueError"
    /\ LET last == trace[Len(trace)]
       IN  \/ last.ev \in {"cli_extract", "cli_metadata"}
           \/ last.ev = "init" /\ ~Supported(req)

\* C12: with --allow_any_extension and --video_path an existing file,
\* neither the extract nor the metadata command raises the unsupported-format
\* ValueError, whatever the extension of the file.
C12_AnyExtensionAccepted ==
    (IsCli /\ Args.allow_any_extension /\ env.video = "file") => ~UnsupportedFormatRaised

\* The extract command was given a directory.
ExtractsDirectory == IsCli /\ Args.command = "extract" /\ env.video = "dir"

\* The entries of the directory whose lower-cased extension is supported
SupportedEntries ==
    {i \in DOMAIN cli.listing : StrLower(cli.listing[i].suffix) \in VALID_VIDEO_EXTENSIONS}

\* C13: when the extract command is given a directory, extract_frames is
\* invoked for every entry whose lower-cased extension is one of .mp4, .avi,
\* .mov, .mkv, .webm (once the command has ended, once for each of them) and
\* for no entry with another extension (an extractor whose extract_frames
\* was invoked is that of a supported entry the loop has visited).
C13_AllSupportedProcessed ==
    ExtractsDirectory =>
        /\ Count("extract_frames") > 0 =>
               \E i \in SupportedEntries :
                   /\ i < cli.next
                   /\ cli.listing[i] = [stem |-> req.video_stem, suffix |-> req.video_suffix]
        /\ Terminated => Count("extract_frames") = Cardinality(SupportedEntries)

\* the first video's probe fails and the second video is never reached
C13_Aborted ==
    /\ ExtractsDirectory
    /\ pc = "raised"
    /\ Cardinality(SupportedEntries) = 2
    /\ Count("extract_frames") = 1
    /\ cli.next = 2

\* C14: when the extract command is given a directory, any two distinct
\* supported video files of the directory are given distinct output
\* directories: no two extraction commands of the run for different videos
\* write to the same directory.
C14_SeparateOutputs ==
    ExtractsDirectory =>
        \A i, j \in DOMAIN ffmpeg :
            ffmpeg[i].video # ffmpeg[j].video => ffmpeg[i].output # ffmpeg[j].output

\* The extract command was given no --strategy.
NoStrategyGiven == IsCli /\ Args.command = "extract" /\ IsNone(Args.strategy)

\* The run ended with an error for a missing fps: the one of get_strategy, or
\* the one of _validate_fps in a strategy that requires fps.
MissingFpsRaised ==
    /\ pc = "raised"
    /\ LET last == trace[Len(trace)]
       IN  \/ last.ev = "get_strategy"
           \/ /\ last.ev = "strategy"
              /\ Strategy # "AllFramesStrategy"
              /\ _validate_fps(Val(self).fps).exc # "none"

\* C15: when no --strategy is given, get_strategy returns None without
\* raising, the constructor is given strategy=None and the extractor uses the
\* all-frames strategy; with no --fps either, the run has no missing-fps error
\* and, on a valid video file, ends having called extract_frames unless the
\* constructor raised.
C15_DefaultIsAllFrames ==
    NoStrategyGiven =>
        /\ Count("get_strategy") = 0
        /\ req.strategy = "None"
        /\ ~IsNone(self) => Strategy = "AllFramesStrategy"
        /\ \A i \in DOMAIN ffmpeg : ffmpeg[i].filter.kind = "passthrough"
        /\ IsNone(Args.fps) =>
             /\ ~MissingFpsRaised
             /\ (Terminated /\ ValidVideoFile /\ trace[Len(trace)] # Event("init", FALSE)) =>
                    Count("extract_frames") = 1

\* extract with neither --strategy nor --fps ran the all-frames command
C15_Witness ==
    /\ NoStrategyGiven
    /\ IsNone(Args.fps)
    /\ pc = "done"
    /\ Strategy = "AllFramesStrategy"
    /\ Len(ffmpeg) = 1
    /\ ffmpeg[1].filter.kind = "passthrough"

\* The arguments of the strategy call, and the window they name:
\* s is start_time (0 when None), e is end_time (the duration when None).
CallStart == IF IsNone(Val(self).start_time) THEN 0 ELSE Val(Val(self).start_time)
CallEnd == IF IsNone(Val(self).end_time) THEN Val(metadata).duration ELSE Val(Val(self).end_time)

\* The conditions under which C16 says _validate_time_range raises
C16_Rejects ==
    IF IsNone(metadata) THEN TRUE
    ELSE LET duration == Val(metadata).duration
         IN  \/ duration <= 0
             \/ CallStart < 0
             \/ CallStart >= duration
             \/ CallEnd <= CallStart
             \/ CallEnd > duration

\* The strategy's checks of fps and avg_fps, which come before the time range
FpsChecksPass ==
    \/ Strategy = "AllFramesStrategy"
    \/ /\ _validate_fps(Val(self).fps).exc = "none"
       /\ _validate_avg_fps(metadata).exc = "none"
       /\ Strategy = "UniformFramesStrategy" =>
              ~FpsExceeds(Val(Val(self).fps), Val(metadata).avg_fps)

\* C16: _validate_time_range raises ValueError exactly when the metadata has
\* no duration, duration <= 0, s < 0, s >= duration, e <= s or e > duration,
\* and otherwise returns (s, e), with 0 <= s < e <= duration; so every
\* extraction command of every strategy has 0 <= ss < to <= duration.
C16_ValidatedWindow ==
    (~IsNone(self) /\ pc \notin {"new", "constructed", "strategy"}) =>
        /\ pc = "raised" => exc = "ValueError"
        /\ C16_Rejects => pc = "raised" /\ ffmpeg = <<>>
        /\ (pc = "raised" /\ FpsChecksPass) => C16_Rejects
        /\ pc # "raised" =>
             /\ sel.start = CallStart
             /\ sel.end = CallEnd
             /\ 0 <= sel.start /\ sel.start < sel.end /\ sel.end <= Val(metadata).duration
        /\ \A i \in DOMAIN ffmpeg :
             /\ ffmpeg[i].ss = CallStart
             /\ ffmpeg[i].to = CallEnd
             /\ 0 <= ffmpeg[i].ss
             /\ ffmpeg[i].ss < ffmpeg[i].to
             /\ ffmpeg[i].to <= Val(metadata).duration

\* a window that starts after 0 and ends, by default, at the duration
C16_Witness ==
    /\ pc = "done"
    /\ Len(ffmpeg) = 1
    /\ Val(self).start_time # None /\ Val(self).end_time = None
    /\ ffmpeg[1].ss > 0
    /\ ffmpeg[1].to = Val(metadata).duration

\* The probe failed in one of the ways C17 lists: the command failed, its
\* output is not JSON, it lists no stream, a field cannot be converted, or
\* the frame rate divides by zero.
ProbeFailed ==
    /\ Probed
    /\ \/ Val(env.probe).status \in {"command_failed", "bad_json", "no_streams", "bad_field"}
       \/ Val(env.probe).status = "ok" /\ ProbedRate[2] = 0

\* C17: get_metadata never raises: on each failure of the probe it returns
\* None (a caller of get_metadata goes on, with None).  extract_frames then
\* raises ValueError and invokes neither the strategy nor the extraction command.
C17_ProbeFailureIsNone ==
    ProbeFailed =>
        /\ IsNone(metadata)
        /\ Count("strategy") = 0 /\ Count("select") = 0 /\ Count("ffmpeg") = 0
        /\ ffmpeg = <<>>
        /\ sel = NoSel
        /\ Count("get_metadata") = 1 =>
               pc = "done" /\ exc = "none" /\ trace[Len(trace)] = Event("get_metadata", FALSE)
        /\ Count("extract_frames") = 1 =>
               /\ pc = "raised"
               /\ exc = "ValueError"
               /\ trace[Len(trace)] = Event("probe", FALSE)

\* the frame rate "1/0" made eval divide by zero, and extract_frames raised
C17_Witness ==
    /\ ProbeFailed
    /\ Val(env.probe).status = "ok"
    /\ Count("extract_frames") = 1
    /\ pc = "raised"
    /\ exc = "ValueError"

\* The select expression with one eq term for each index of the set, in
\* ascending order, joined by "+"
RECURSIVE AscendingTerms(_)
AscendingTerms(indices) ==
    IF indices = {} THEN ""
    ELSE LET least == CHOOSE i \in indices : \A j \in indices : i <= j
         IN  IF indices = {least}
             THEN "eq(n\\," \o ToString(least) \o ")"
             ELSE "eq(n\\," \o ToString(least) \o ")+" \o AscendingTerms(indices \ {least})

\* The filter arguments C18 states for the strategy of the run
C18_FilterArguments ==
    CASE Strategy = "AllFramesStrategy" -> <<"-fps_mode", "passthrough">>
      [] Strategy = "UniformFramesStrategy" -> <<"-vf", "fps=" \o ToString(Val(Val(self).fps))>>
      [] Strategy = "FixedRandomFramesStrategy" ->
             LET frames == Val(sel.frames)
             IN  <<"-vf",
                   "select='" \o AscendingTerms({frames[i] : i \in DOMAIN frames}) \o "'",
                   "-vsync", "vfr">>

\* C18: the extraction command is, in order: ffmpeg, -i <video>, -ss <start>,
\* -to <end>, the strategy's filter arguments, then -frame_pts true if and
\* only if reset_indices is False, then <output_dir>/frame_%06d.png as last
\* argument; the filter arguments are -fps_mode passthrough (all), -vf
\* fps=<fps> (uniform), and -vf select='...' -vsync vfr (fixed-random) with
\* one eq(n\,<idx>) term per selected index, ascending, joined by "+".
C18_CommandLayout ==
    \A c \in DOMAIN ffmpeg :
        LET a == ffmpeg[c].argv
            n == Len(a)
            k == Len(C18_FilterArguments)
        IN  /\ SubSeq(a, 1, 7) =
                   <<"ffmpeg", "-i", VideoPathStr(Val(self).video_stem, Val(self).video_suffix),
                     "-ss", TimeStr(sel.start), "-to", TimeStr(sel.end)>>
            /\ SubSeq(a, 8, 7 + k) = C18_FilterArguments
            /\ IF Val(self).reset_indices
               THEN n = 8 + k
               ELSE n = 10 + k /\ SubSeq(a, 8 + k, 9 + k) = <<"-frame_pts", "true">>
            /\ a[n] = OutputDirStr(Val(Val(self).output_dir)) \o "/frame_%06d.png"
            /\ Strategy = "FixedRandomFramesStrategy" =>
                   Cardinality({Val(sel.frames)[i] : i \in DOMAIN Val(sel.frames)})
                       = Len(Val(sel.filter).terms)

\* a fixed-random command with three terms, drawn out of order, and -frame_pts
C18_Witness ==
    /\ pc = "done"
    /\ Len(ffmpeg) = 1
    /\ Strategy = "FixedRandomFramesStrategy"
    /\ ~Val(self).reset_indices
    /\ Len(sel.samples) = 3
    /\ sel.samples[1] > sel.samples[2]
    /\ Len(ffmpeg[1].argv) = 14

\* C19: with a --video_path that is neither an existing file nor an existing
\* directory, extract (its strategy resolved) raises FileNotFoundError and
\* constructs no extractor; metadata likewise ends with an error for the
\* invalid path and does not return silently.
C19_InvalidPathRaises ==
    (IsCli /\ env.video = "missing") =>
        /\ Count("init") = 0
        /\ IsNone(self)
        /\ (Terminated /\ Args.command = "extract" /\ get_strategy(Args).exc = "none") =>
               pc = "raised" /\ exc = "FileNotFoundError"
        /\ (Terminated /\ Args.command = "metadata") =>
               pc = "raised" /\ exc # "none"

\* What VideoFrameExtractor.__init__ would answer to the arguments of the
\* strategy call, for an existing video it accepts and a usable output
\* directory: its checks of fps and of the times alone.
CallAsRequest == [allow_any_extension |-> TRUE] @@ Val(self)
UsableOutput == [exc |-> "none", post |-> "dir"]
InitRejects == InitChecks(CallAsRequest, TRUE, UsableOutput) # "none"
InitRejectsTimes == InitChecks([CallAsRequest EXCEPT !.fps = None], TRUE, UsableOutput) # "none"
InitRejectsFps == ~IsNone(Val(self).fps) /\ InitChecks(CallAsRequest, TRUE, UsableOutput) # "none"
                      /\ ~InitRejectsTimes

\* The strategy has validated its arguments and gone on
StrategyAccepted == pc \in {"select", "sample", "common", "done"}

\* C20: for every duration D > 0, what __init__ rejects for a negative
\* start_time, a negative end_time, end_time <= start_time or fps <= 0 is
\* also rejected by _validate_time_range / _validate_fps (fps: for the uniform
\* and the fixed-random strategy), so the strategy raises for it, and the
\* constructor rejects no request that the strategy accepts.
C20_ConstructorSubsumed ==
    (~IsNone(self) /\ ~IsNone(metadata) /\ pc \notin {"new", "constructed"}) =>
        (Val(metadata).duration > 0 =>
            /\ InitRejectsTimes =>
                   /\ _validate_time_range(metadata, Val(self).start_time,
                                           Val(self).end_time).exc = "ValueError"
                   /\ pc \in {"strategy", "raised"}
            /\ (InitRejectsFps /\ Strategy # "AllFramesStrategy") =>
                   /\ _validate_fps(Val(self).fps).exc = "ValueError"
                   /\ pc \in {"strategy", "raised"}
            /\ StrategyAccepted =>
                   IF Strategy = "AllFramesStrategy" THEN ~InitRejectsTimes ELSE ~InitRejects)

\* the constructor would reject end_time <= start_time, and the strategy,
\* called with the same arguments, raised
C20_Witness ==
    /\ IsNone(args)
    /\ pc = "raised"
    /\ trace = <<Event("strategy", FALSE)>>
    /\ ~IsNone(metadata)
    /\ Val(metadata).duration > 0
    /\ Val(self).start_time = Some(1) /\ Val(self).end_time = Some(1)
    /\ InitRejectsTimes

====
